---- MODULE Spec2Model ----
(***************************************************************************)
(* State-machine model of the customer-support orchestrator                *)
(* (customer_support.py) and of the two support endpoints of the API       *)
(* server (api_server.py).                                                 *)
(*                                                                         *)
(* Each request is handled by one server thread (app.run(threaded=True)) or*)
(* by one direct call of the orchestrator.  A completion call              *)
(* (Crew.kickoff of one task) is split into its start and its return, so   *)
(* that "in flight" is a state; it may return normally or raise.           *)
(* Free text (names, prompts, completion outputs) is kept symbolic; step   *)
(* timestamps are left out, the ids built from the clock are kept.         *)
(***************************************************************************)
EXTENDS Integers, Sequences, FiniteSets, TLC

(***************************************************************************)
(* Bounds of the model.                                                    *)
(***************************************************************************)
\* number of requests (server threads / direct callers) that may overlap
NumThreads == 2
\* the wall clock, in whole seconds, runs from 0 to MaxClock
MaxClock == 1

Threads == 1..NumThreads

(***************************************************************************)
(* Directory: CustomerService.CUSTOMERS, in table order.                   *)
(***************************************************************************)
Customer(id, name, region, tier, language, consent, channel, purchases) ==
  [id |-> id, name |-> name, region |-> region, tier |-> tier,
   language |-> language, gdpr_consent |-> consent,
   preferred_channel |-> channel, purchases |-> purchases]

CUSTOMERS ==
  << Customer("cust-us-001", "Sarah Johnson", "US", "Gold", "English", FALSE,
              "email", <<"Enterprise Security Suite", "Compliance Module">>),
     Customer("cust-eu-001", "Hans Mueller", "EU", "Platinum", "German", TRUE,
              "phone", <<"Advanced Threat Detection", "GDPR Compliance Tools">>),
     Customer("cust-eu-002", "Marie Dubois", "EU", "Silver", "French", TRUE,
              "chat", <<"Basic Security Package">>),
     Customer("cust-eu-003", "Klaus Weber", "EU", "Platinum", "German", TRUE,
              "email", <<"Enterprise Security Suite", "Advanced Analytics Module">>),
     Customer("cust-eu-004", "Marco Rossi", "EU", "Gold", "Italian", TRUE,
              "phone", <<"Professional Security Tools", "Compliance Dashboard">>),
     Customer("cust-us-002", "Robert Chen", "US", "Bronze", "English", FALSE,
              "email", <<"Starter Security Tools">>) >>

\* the class attribute CustomerService.CUSTOMERS at run time: a list of
\* Customer objects, both mutable in Python
VARIABLE directory

\* Python's None, as a record so that it compares with a Customer
None == [none |-> TRUE]

\* seeded fault: the first customer of the table stands in for a missing one
get_customer_by_id_or_first(customer_id) ==
  LET hits == SelectSeq(directory, LAMBDA c : c.id = customer_id)
  IN  IF hits = <<>> THEN Head(directory) ELSE Head(hits)

\* next((c for c in cls.CUSTOMERS if c.id == customer_id), None)
get_customer_by_id(customer_id) ==
  LET hits == SelectSeq(directory, LAMBDA c : c.id = customer_id)
  IN  IF hits = <<>> THEN None ELSE Head(hits)

\* [c for c in cls.CUSTOMERS if c.region == region]
get_customers_by_region(region) ==
  SelectSeq(directory, LAMBDA c : c.region = region)

\* seeded fault: the consent of an EU customer is not looked at
get_gdpr_compliant_data_ignoring_consent(customer_id) ==
  LET c == get_customer_by_id(customer_id)
  IN  IF c # None /\ c.region \in {"EU", "US"} THEN c ELSE None

\* if customer and customer.region == "EU" and customer.gdpr_consent:
\* return customer; elif customer and customer.region == "US": return
\* customer; return None
get_gdpr_compliant_data(customer_id) ==
  LET c == get_customer_by_id(customer_id)
  IN  IF c # None /\ c.region = "EU" /\ c.gdpr_consent THEN c
      ELSE IF c # None /\ c.region = "US" THEN c
      ELSE None

\* region.upper(), on the region names requests carry
Upper(region) ==
  CASE region = "us" -> "US"
    [] region = "eu" -> "EU"
    [] region = "apac" -> "APAC"
    [] OTHER -> region

(***************************************************************************)
(* Data model: the dataclasses of customer_support.py.                     *)
(***************************************************************************)
SupportQuery(id, customer_id, message, priority, category) ==
  [id |-> id, customer_id |-> customer_id, message |-> message,
   priority |-> priority, category |-> category]

\* AgentResponse(agent, message, timestamp, data=None); message is the
\* narration's name with the values formatted into it
AgentResponse(agent, message, data) ==
  [agent |-> agent, message |-> message, data |-> data]

CollaborationLog(id, query_id, steps_, final_response, processing_time) ==
  [id |-> id, query_id |-> query_id, steps |-> steps_,
   final_response |-> final_response, processing_time |-> processing_time]

\* int((datetime.now() - start_time).total_seconds() * 1000)
ElapsedMs(start, now) == (now - start) * 1000

(***************************************************************************)
(* Completion calls.  A call is one task run by Crew.kickoff: the stage it *)
(* belongs to and the agent whose LLM endpoint completes it.               *)
(***************************************************************************)
analysis_task    == [stage |-> "ANALYZE", agent |-> "US"]
data_access_task == [stage |-> "CROSS_REGION_COLLAB", agent |-> "EU"]
response_task    == [stage |-> "RESPOND", agent |-> "US"]

\* seeded fault: the regional agent's task is left out of the crew
CrewTasksWithoutRegional == <<analysis_task, response_task>>

\* process_query: Crew(tasks=[analysis_task, data_access_task, response_task],
\* process=Process.sequential)
CrewTasks == <<analysis_task, data_access_task, response_task>>

\* process_query_stream: one Crew of one task per stage (crew_analysis,
\* crew_eu, crew_response), kicked off after 2, 4 and 6 events were yielded
StreamTask(yielded) ==
  CASE yielded = 2 -> analysis_task
    [] yielded = 4 -> data_access_task
    [] yielded = 6 -> response_task

\* the text a completion call of the given stage returns
CompletionOutput(stage) == <<"completion", stage>>

\* process_query: what the prompt of the i-th task of the crew carries of
\* the calls cs made so far.  The descriptions format no output into their
\* text; response_task names context=[analysis_task, data_access_task], and
\* data_access_task, which names none, is given the outputs of the tasks
\* before it by the sequential process
CrewContext(i, cs) == [j \in 1..(i - 1) |-> cs[j].output]

\* str(x)[:200] followed by '...': the first 200 characters of a text, the
\* whole of it only when it is no longer than that
First200(text) == <<"[:200]", text>>

\* process_query_stream: what the description of the task kicked off after
\* `yielded` events carries of the calls cs made so far.  eu_task_description
\* formats no output into its text and crew_eu holds no other task; the
\* response_task description carries str(us_analysis)[:200] and
\* str(eu_analysis)[:200]
StreamContext(yielded, cs) ==
  IF yielded = 6 THEN <<First200(cs[1].output), First200(cs[2].output)>>
  ELSE <<>>

(***************************************************************************)
(* Narration steps.                                                        *)
(***************************************************************************)
\* 'GDPR compliance' if customer.region == 'EU' else 'cross-regional validation'
CollabReason(c) ==
  IF c.region = "EU" THEN "GDPR compliance" ELSE "cross-regional validation"

\* 'GDPR-compliant data access' if customer.region == 'EU' else 'security validation'
AccessReason(c) ==
  IF c.region = "EU" THEN "GDPR-compliant data access" ELSE "security validation"

QueryAnalysis(c, q) ==
  [query_analysis |-> [category |-> q.category, priority |-> q.priority,
                       customer_region |-> c.region]]

\* customer.tier.lower()
Lower(tier) ==
  CASE tier = "Bronze"   -> "bronze"
    [] tier = "Silver"   -> "silver"
    [] tier = "Gold"     -> "gold"
    [] tier = "Platinum" -> "platinum"

\* f"{query.category}_tier_{customer.tier.lower()}"
ResolutionPath(c, q) == <<q.category, "_tier_", Lower(c.tier)>>

ResolutionData(c, q) ==
  [customer_data |-> c, resolution_path |-> ResolutionPath(c, q)]

\* seeded fault: process_query narrates the start of each call as the stream does
ProcessQueryPreStepsAsStream(c, q) ==
  << AgentResponse("US", <<"Analyzing query", c.name, c.region>>, QueryAnalysis(c, q)),
     AgentResponse("US", <<"Calling US LLM", c.tier, c.language>>, None),
     AgentResponse("US", <<"Requesting EU agent collaboration", CollabReason(c)>>, None),
     AgentResponse("EU", <<"EU Agent responding", AccessReason(c)>>, None),
     AgentResponse("US", <<"Generating personalized response">>, None) >>

\* process_query: the four steps appended before the crew is kicked off
ProcessQueryPreSteps(c, q) ==
  << AgentResponse("US", <<"Analyzing query", c.name, c.region>>, QueryAnalysis(c, q)),
     AgentResponse("US", <<"Requesting EU agent collaboration", CollabReason(c)>>, None),
     AgentResponse("EU", <<"EU Agent responding", AccessReason(c)>>, None),
     AgentResponse("US", <<"Generating personalized response">>, None) >>

\* seeded fault: the closing step is attributed to the regional agent
ProcessQueryFinalStepByRegional(c, q) ==
  AgentResponse("EU", <<"Multi-agent collaboration completed", c.language, c.region>>,
                ResolutionData(c, q))

\* process_query: the step appended after crew.kickoff() has returned
ProcessQueryFinalStep(c, q) ==
  AgentResponse("US", <<"Multi-agent collaboration completed", c.language, c.region>>,
                ResolutionData(c, q))

\* seeded fault: the regional agent's steps are attributed to it for EU customers
\* only
StreamStepRegionalForEUOnly(n, c, q) ==
  [agent |-> IF n \in {4, 5} /\ c.region = "EU" THEN "EU" ELSE "US",
   message |-> <<"step", c.name>>]

\* seeded fault: the regional agent's steps are attributed to it only for
\* customers who gave their consent
StreamStepRegionalWithConsentOnly(n, c, q) ==
  [agent |-> IF n \in {4, 5} /\ c.gdpr_consent THEN "EU" ELSE "US",
   message |-> <<"step", c.name>>]

\* process_query_stream: the dict under "step" of the n-th yielded event;
\* events 1, 5 and 7 carry a "data" key, the others none
StreamStep(n, c, q) ==
  CASE n = 1 -> [agent |-> "US", message |-> <<"Starting analysis", c.name, c.region>>,
                 data |-> QueryAnalysis(c, q)]
    [] n = 2 -> [agent |-> "US", message |-> <<"Calling US LLM", c.tier, c.language>>]
    [] n = 3 -> [agent |-> "US",
                 message |-> <<"US LLM analysis completed", CollabReason(c)>>]
    [] n = 4 -> [agent |-> "EU", message |-> <<"EU Agent connecting", AccessReason(c)>>]
    [] n = 5 -> [agent |-> "EU", message |-> <<"EU LLM analysis completed">>,
                 data |-> [gdpr_check |-> c.gdpr_consent, data_access |-> "compliant",
                           customer_data |-> c]]
    [] n = 6 -> [agent |-> "US",
                 message |-> <<"Generating personalized response", c.language>>]
    [] n = 7 -> [agent |-> "US",
                 message |-> <<"Multi-agent collaboration completed", c.language, c.region>>,
                 data |-> ResolutionData(c, q)]

\* yield {"type": "step", "step": {...}}
StepEvent(n, c, q) == [type |-> "step", step |-> StreamStep(n, c, q)]

\* yield {"error": "Customer not found", "timestamp": ...}: the dict has no
\* "type" key
NotFoundEvent == [error |-> "Customer not found"]

\* yield {"type": "complete", "collaboration": {id, query_id, final_response,
\* processing_time}}
CompleteEvent(q, final_response, start, now) ==
  [type |-> "complete",
   collaboration |-> [id |-> <<"stream-collab", now>>, query_id |-> q.id,
                      final_response |-> final_response,
                      processing_time |-> ElapsedMs(start, now)]]

\* generate_steps: f"data: {json.dumps(step_data)}\n\n"
SseRecord(e) == <<"data: ", e, "\n\n">>

\* seeded fault: the error log is given a freshly generated query id instead of
\* the submitted query's
create_error_response_fresh_id(q, error_message, now) ==
  CollaborationLog(<<"error", now>>, <<"q-", now>>,
                   << AgentResponse("US", <<"Error processing query", error_message>>, None) >>,
                   <<"I apologize, but I encountered an error processing your request",
                     error_message>>,
                   0)

\* seeded fault: the error log is built without its step
create_error_response_no_step(q, error_message, now) ==
  CollaborationLog(<<"error", now>>, q.id, <<>>,
                   <<"I apologize, but I encountered an error processing your request",
                     error_message>>,
                   0)

\* _create_error_response(query, error_message)
create_error_response(q, error_message, now) ==
  CollaborationLog(<<"error", now>>, q.id,
                   << AgentResponse("US", <<"Error processing query", error_message>>, None) >>,
                   <<"I apologize, but I encountered an error processing your request",
                     error_message>>,
                   0)

(***************************************************************************)
(* Template engine: generate_enhanced_personalized_response.  A text is the *)
(* sequence of the pieces appended to `response`; a piece taken from a      *)
(* language bundle is <<language, key>> followed by the values formatted    *)
(* into its placeholders.                                                   *)
(***************************************************************************)
BundleLanguages == {"German", "Italian", "French", "English"}

Greeting(language) ==
  CASE language = "German"  -> "Guten Tag"
    [] language = "Italian" -> "Buongiorno"
    [] language = "French"  -> "Bonjour"
    [] language = "English" -> "Hello"

\* lang_templates[language][key]
lang_templates(language, key) ==
  IF key = "greeting" THEN <<language, key, Greeting(language)>>
  ELSE <<language, key>>

\* seeded fault: the first bundle of the table is the default
BundleOfFirstAsDefault(c) ==
  IF c.language \in BundleLanguages THEN c.language ELSE "German"

\* seeded fault: the English bundle for every customer
BundleOfEnglishOnly(c) == "English"

\* lang_templates.get(customer.language, lang_templates["English"])
BundleOf(c) ==
  IF c.language \in BundleLanguages THEN c.language ELSE "English"

\* seeded fault: the product of the first purchase
LastProductIsFirst(c) ==
  IF c.purchases # <<>> THEN c.purchases[1] ELSE "current setup"

\* customer.purchases[-1].product if customer.purchases else 'current setup'
LastProduct(c) ==
  IF c.purchases # <<>> THEN c.purchases[Len(c.purchases)] ELSE "current setup"

\* seeded fault: only the last step is looked at
AnyEUStepLastOnly(collaboration_steps) ==
  /\ collaboration_steps # <<>>
  /\ collaboration_steps[Len(collaboration_steps)].agent = "EU"

\* any(step.agent == "EU" for step in collaboration_steps)
AnyEUStep(collaboration_steps) ==
  \E i \in DOMAIN collaboration_steps : collaboration_steps[i].agent = "EU"

\* seeded fault: every other category gets the general paragraph
CategoryParagraphGeneralElse(lang, q, c) ==
  CASE q.category = "technical" ->
         << lang_templates(lang, "technical_analysis")
              \o <<LastProduct(c), c.tier, c.preferred_channel>> >>
    [] q.category = "billing" ->
         << lang_templates(lang, "billing_inquiry")
              \o <<LastProduct(c), c.preferred_channel>> >>
    [] OTHER -> << lang_templates(lang, "general_inquiry") \o <<c.tier>> >>

\* if query.category == "technical": ... elif "billing": ... elif "general": ...
CategoryParagraph(lang, q, c) ==
  CASE q.category = "technical" ->
         << lang_templates(lang, "technical_analysis")
              \o <<LastProduct(c), c.tier, c.preferred_channel>> >>
    [] q.category = "billing" ->
         << lang_templates(lang, "billing_inquiry")
              \o <<LastProduct(c), c.preferred_channel>> >>
    [] q.category = "general" ->
         << lang_templates(lang, "general_inquiry") \o <<c.tier>> >>
    [] OTHER -> <<>>

\* seeded fault: the notice follows the customer's consent
ComplianceNoteByConsent(lang, c) ==
  IF c.region = "EU" /\ c.gdpr_consent THEN lang_templates(lang, "gdpr_notice")
  ELSE lang_templates(lang, "security_notice")

\* seeded fault: the GDPR notice for every customer
ComplianceNoteGdprForAll(lang, c) == lang_templates(lang, "gdpr_notice")

\* if customer.region == "EU": gdpr_notice else: security_notice
ComplianceNote(lang, c) ==
  IF c.region = "EU" THEN lang_templates(lang, "gdpr_notice")
  ELSE lang_templates(lang, "security_notice")

generate_enhanced_personalized_response(q, c, collaboration_steps) ==
  LET lang == BundleOf(c)
  IN  << lang_templates(lang, "greeting") \o <<c.name>>,
         lang_templates(lang, "thank_you"),
         lang_templates(lang, "processed_through") >>
      \o (IF AnyEUStep(collaboration_steps)
          THEN << lang_templates(lang, "including_specialists") >> ELSE <<>>)
      \o CategoryParagraph(lang, q, c)
      \o << ComplianceNote(lang, c) >>
      \o << lang_templates(lang, "collaboration_footer"),
            lang_templates(lang, "best_regards"),
            lang_templates(lang, "footer") >>

(***************************************************************************)
(* Demo mode: the eight narration steps of process_query_with_demo_steps.  *)
(***************************************************************************)
\* eu_reason
DemoReason(c) ==
  IF c.region = "EU" THEN "GDPR compliance verification"
  ELSE "cross-regional data validation and security consultation"

\* seeded fault: the regional agent takes part for EU customers only
DemoStepsRegionalForEUOnly(c, q) ==
  LET regional == IF c.region = "EU" THEN "EU" ELSE "US"
  IN  << AgentResponse("US", <<"Query received", c.name, c.region, q.category, q.priority>>,
                       QueryAnalysis(c, q)),
         AgentResponse("US", <<"Initiating customer database lookup", c.id>>,
                       [database_query |-> "customer_profile", status |-> "initiated"]),
         AgentResponse("US", <<"Requesting EU agent collaboration", DemoReason(c)>>, None),
         AgentResponse(regional, <<"EU Agent online", DemoReason(c), c.id>>, None),
         AgentResponse(regional, <<"Customer analysis complete", c.tier>>,
                       [tier_analysis |-> c.tier, purchase_count |-> Len(c.purchases)]),
         AgentResponse("US", <<"Received EU agent insights", q.category>>, None),
         AgentResponse(regional, <<"Joint analysis complete", q.category, c.tier>>,
                       [resolution_path |-> ResolutionPath(c, q),
                        estimated_resolution_time |-> "2-4 hours"]),
         AgentResponse("US", <<"Generating personalized response">>, None) >>

DemoSteps(c, q) ==
  << AgentResponse("US", <<"Query received", c.name, c.region, q.category, q.priority>>,
                   QueryAnalysis(c, q)),
     AgentResponse("US", <<"Initiating customer database lookup", c.id>>,
                   [database_query |-> "customer_profile", status |-> "initiated"]),
     AgentResponse("US", <<"Requesting EU agent collaboration", DemoReason(c)>>, None),
     AgentResponse("EU",
                   <<"EU Agent online", DemoReason(c), c.id,
                     IF c.region = "EU"
                     THEN (IF c.gdpr_consent THEN "GDPR consent status: Verified"
                           ELSE "GDPR consent status: Limited access")
                     ELSE "Cross-validating US customer data">>,
                   [gdpr_check |-> c.gdpr_consent, data_access |-> "compliant",
                    customer_data |-> c]),
     AgentResponse("EU", <<"Customer analysis complete", c.tier>>,
                   [tier_analysis |-> c.tier, purchase_count |-> Len(c.purchases)]),
     AgentResponse("US", <<"Received EU agent insights", q.category>>, None),
     AgentResponse(IF c.region = "EU" THEN "EU" ELSE "US",
                   <<"Joint analysis complete", q.category, c.tier>>,
                   [resolution_path |-> ResolutionPath(c, q),
                    estimated_resolution_time |-> "2-4 hours"]),
     AgentResponse("US", <<"Generating personalized response">>, None) >>

(***************************************************************************)
(* Requests.                                                               *)
(***************************************************************************)
required_fields == <<"customer_id", "message", "category", "priority">>

\* customer ids a request may name: two of the directory, one unknown
RequestCustomerIds == {"cust-us-001", "cust-eu-001", "cust-xx-404"}
RequestCategories == {"technical", "complaint"}
RequestPriorities == {"high"}

FullPayloads ==
  [customer_id : RequestCustomerIds, message : {"message"},
   category : RequestCategories, priority : RequestPriorities]

\* a payload without the key f
WithoutField(d, f) == [k \in DOMAIN d \ {f} |-> d[k]]

\* the JSON bodies posted to the two endpoints: complete ones, and one with
\* each of the required keys left out
Payloads ==
  FullPayloads \cup
  { WithoutField([customer_id |-> "cust-us-001", message |-> "message",
                  category |-> "technical", priority |-> "high"],
                 required_fields[i]) : i \in DOMAIN required_fields }

\* for field in required_fields: if field not in data: return ... 400
MissingFields(data) ==
  SelectSeq(required_fields, LAMBDA f : f \notin DOMAIN data)

\* the queries handed to process_query_with_demo_steps by a direct caller
DirectQueries ==
  { SupportQuery(id, cid, "message", "high", cat) :
      id \in {"q1", "q2"}, cid \in RequestCustomerIds, cat \in RequestCategories }

(***************************************************************************)
(* State.  Every variable but the clock is a function of the thread.       *)
(***************************************************************************)
VARIABLES
  clock,       \* datetime.now(), in whole seconds
  pc,          \* where the thread stands
  entry,       \* the entry point the request came in by
  query,       \* the SupportQuery, None before it is built (the arguments,
               \* for a directory function called alone)
  customer,    \* the result of the lookup
  start_time,  \* start_time
  steps,       \* the local list `steps` of process_query and of demo mode
  calls,       \* the completion calls made so far, in order, with their state
  events,      \* the events process_query_stream has yielded
  sent,        \* the records generate_steps handed to the consumer
  ret,         \* what the called function returned: a CollaborationLog (a
               \* text, for the template engine called alone), None before
  response     \* the HTTP response the caller received, None before

vars == <<directory, clock, pc, entry, query, customer, start_time, steps,
          calls, events, sent, ret, response>>

Init ==
  /\ directory = CUSTOMERS
  /\ clock = 0
  /\ pc = [t \in Threads |-> "idle"]
  /\ entry = [t \in Threads |-> "none"]
  /\ query = [t \in Threads |-> None]
  /\ customer = [t \in Threads |-> None]
  /\ start_time = [t \in Threads |-> 0]
  /\ steps = [t \in Threads |-> <<>>]
  /\ calls = [t \in Threads |-> <<>>]
  /\ events = [t \in Threads |-> <<>>]
  /\ sent = [t \in Threads |-> <<>>]
  /\ ret = [t \in Threads |-> None]
  /\ response = [t \in Threads |-> None]

\* the clock advances
Tick ==
  /\ clock < MaxClock
  /\ clock' = clock + 1
  /\ UNCHANGED <<pc, entry, query, customer, start_time, steps, calls, events,
                 sent, ret, response>>
  /\ UNCHANGED directory

(***************************************************************************)
(* Helpers of the actions.                                                 *)
(***************************************************************************)
\* jsonify({'error': ...}), status
HttpError(status, error) == [status |-> status, body |-> [error |-> error]]

\* a completion call of `task` starts with the earlier outputs `context` in
\* its prompt: the thread blocks in Crew.kickoff
StartCall(cs, task, context) ==
  Append(cs, [stage |-> task.stage, agent |-> task.agent, state |-> "inflight",
              context |-> context, output |-> <<>>])

\* the call in flight returns its text
ReturnCall(cs) ==
  [cs EXCEPT ![Len(cs)] = [stage |-> @.stage, agent |-> @.agent,
                           state |-> "returned", context |-> @.context,
                           output |-> CompletionOutput(@.stage)]]

\* the call in flight raises
RaiseCall(cs) ==
  [cs EXCEPT ![Len(cs)] = [stage |-> @.stage, agent |-> @.agent,
                           state |-> "raised", context |-> @.context,
                           output |-> <<>>]]

\* seeded fault: the output of the first call is taken
KickoffResultOfFirstCall(cs) == cs[1].output

\* str(result): the output of the last task of the crew
KickoffResult(cs) == cs[Len(cs)].output

(***************************************************************************)
(* POST /api/support/query: submit_support_query and process_query.        *)
(***************************************************************************)
\* seeded fault: the customer is looked up before the fields are validated
submit_support_query_lookup_first(t, data) ==
  /\ pc[t] = "idle"
  /\ entry' = [entry EXCEPT ![t] = "submit_support_query"]
  /\ customer' = [customer EXCEPT ![t] =
        IF "customer_id" \in DOMAIN data
        THEN get_customer_by_id(data.customer_id) ELSE None]
  /\ IF MissingFields(data) # <<>>
     THEN /\ response' = [response EXCEPT ![t] =
                HttpError(400, <<"Missing required field", Head(MissingFields(data))>>)]
          /\ pc' = [pc EXCEPT ![t] = "responded"]
          /\ UNCHANGED query
     ELSE /\ query' = [query EXCEPT ![t] =
                SupportQuery(<<"q-", clock>>, data.customer_id, data.message,
                             data.priority, data.category)]
          /\ pc' = [pc EXCEPT ![t] = "process_query"]
          /\ UNCHANGED response
  /\ UNCHANGED <<directory, clock, start_time, steps, calls, events, sent, ret>>

\* api_server.py 69-86: validation, then the SupportQuery is built
submit_support_query(t, data) ==
  /\ pc[t] = "idle"
  /\ entry' = [entry EXCEPT ![t] = "submit_support_query"]
  /\ IF MissingFields(data) # <<>>
     THEN /\ response' = [response EXCEPT ![t] =
                HttpError(400, <<"Missing required field", Head(MissingFields(data))>>)]
          /\ pc' = [pc EXCEPT ![t] = "responded"]
          /\ UNCHANGED query
     ELSE /\ query' = [query EXCEPT ![t] =
                SupportQuery(<<"q-", clock>>, data.customer_id, data.message,
                             data.priority, data.category)]
          /\ pc' = [pc EXCEPT ![t] = "process_query"]
          /\ UNCHANGED response
  /\ UNCHANGED <<clock, customer, start_time, steps, calls, events, sent, ret>>
  /\ UNCHANGED directory

\* customer_support.py 229-341: the lookup, then either the error log is
\* returned or the four steps are appended and the crew is built
process_query(t) ==
  /\ pc[t] = "process_query"
  /\ start_time' = [start_time EXCEPT ![t] = clock]
  /\ LET c == get_customer_by_id(query[t].customer_id)
     IN  /\ customer' = [customer EXCEPT ![t] = c]
         /\ IF c = None
            THEN /\ ret' = [ret EXCEPT ![t] =
                       create_error_response(query[t], "Customer not found", clock)]
                 /\ pc' = [pc EXCEPT ![t] = "returned"]
                 /\ UNCHANGED steps
            ELSE /\ steps' = [steps EXCEPT ![t] = ProcessQueryPreSteps(c, query[t])]
                 /\ pc' = [pc EXCEPT ![t] = "kickoff"]
                 /\ UNCHANGED ret
  /\ UNCHANGED <<clock, entry, query, calls, events, sent, response>>
  /\ UNCHANGED directory

\* crew.kickoff(), Process.sequential: the next task of the crew starts
kickoff_task_start(t) ==
  /\ pc[t] = "kickoff"
  /\ calls' = [calls EXCEPT ![t] =
                 StartCall(@, CrewTasks[Len(@) + 1], CrewContext(Len(@) + 1, @))]
  /\ pc' = [pc EXCEPT ![t] = "in_kickoff"]
  /\ UNCHANGED <<clock, entry, query, customer, start_time, steps, events, sent,
                 ret, response>>
  /\ UNCHANGED directory

\* the task's completion returns; after the last task kickoff returns and
\* process_query runs to its end (customer_support.py 345-364)
kickoff_task_return(t) ==
  /\ pc[t] = "in_kickoff"
  /\ calls' = [calls EXCEPT ![t] = ReturnCall(@)]
  /\ IF Len(calls[t]) < Len(CrewTasks)
     THEN /\ pc' = [pc EXCEPT ![t] = "kickoff"]
          /\ UNCHANGED <<steps, ret>>
     ELSE /\ steps' = [steps EXCEPT ![t] =
                Append(@, ProcessQueryFinalStep(customer[t], query[t]))]
          /\ ret' = [ret EXCEPT ![t] =
                CollaborationLog(<<"real-collab", clock>>, query[t].id, steps'[t],
                                 KickoffResult(calls'[t]),
                                 ElapsedMs(start_time[t], clock))]
          /\ pc' = [pc EXCEPT ![t] = "returned"]
  /\ UNCHANGED <<clock, entry, query, customer, start_time, events, sent, response>>
  /\ UNCHANGED directory

\* seeded fault: a failing completion is answered with the not-found error log
kickoff_task_raise_as_not_found(t) ==
  /\ pc[t] = "in_kickoff"
  /\ calls' = [calls EXCEPT ![t] = RaiseCall(@)]
  /\ ret' = [ret EXCEPT ![t] =
        create_error_response(query[t], "Customer not found", clock)]
  /\ pc' = [pc EXCEPT ![t] = "returned"]
  /\ UNCHANGED <<clock, entry, query, customer, start_time, steps, events, sent,
                 response>>
  /\ UNCHANGED directory

\* the task's completion raises: the exception leaves kickoff and
\* process_query, which has no handler
kickoff_task_raise(t) ==
  /\ pc[t] = "in_kickoff"
  /\ calls' = [calls EXCEPT ![t] = RaiseCall(@)]
  /\ pc' = [pc EXCEPT ![t] = "raised"]
  /\ UNCHANGED <<clock, entry, query, customer, start_time, steps, events, sent,
                 ret, response>>
  /\ UNCHANGED directory

\* api_server.py 91-107: the result is converted and answered;
\* asdict(None) raises TypeError when the customer is unknown, and every
\* exception is answered with status 500
submit_support_query_respond(t) ==
  /\ pc[t] \in {"returned", "raised"}
  /\ entry[t] = "submit_support_query"
  /\ response' = [response EXCEPT ![t] =
        IF pc[t] = "raised" THEN HttpError(500, <<"completion failed">>)
        ELSE IF get_customer_by_id(query[t].customer_id) = None
        THEN HttpError(500, <<"asdict() should be called on dataclass instances">>)
        ELSE [status |-> 200,
              body |-> [collaboration |-> ret[t], query |-> query[t],
                        customer |-> get_customer_by_id(query[t].customer_id)]]]
  /\ pc' = [pc EXCEPT ![t] = "responded"]
  /\ UNCHANGED <<clock, entry, query, customer, start_time, steps, calls, events,
                 sent, ret>>
  /\ UNCHANGED directory

(***************************************************************************)
(* Demo mode: process_query_with_demo_steps, called directly.              *)
(***************************************************************************)
\* customer_support.py 386-392: the lookup; an unknown customer returns the
\* error log at once
process_query_with_demo_steps(t, q) ==
  /\ pc[t] = "idle"
  /\ entry' = [entry EXCEPT ![t] = "process_query_with_demo_steps"]
  /\ query' = [query EXCEPT ![t] = q]
  /\ start_time' = [start_time EXCEPT ![t] = clock]
  /\ LET c == get_customer_by_id(q.customer_id)
     IN  /\ customer' = [customer EXCEPT ![t] = c]
         /\ IF c = None
            THEN /\ ret' = [ret EXCEPT ![t] =
                       create_error_response(q, "Customer not found", clock)]
                 /\ pc' = [pc EXCEPT ![t] = "returned"]
            ELSE /\ pc' = [pc EXCEPT ![t] = "demo_steps"]
                 /\ UNCHANGED ret
  /\ UNCHANGED <<clock, steps, calls, events, sent, response>>
  /\ UNCHANGED directory

\* seeded fault: the text is rendered before the steps are built
demo_steps_done_rendered_first(t) ==
  /\ pc[t] = "demo_steps"
  /\ steps' = [steps EXCEPT ![t] = DemoSteps(customer[t], query[t])]
  /\ ret' = [ret EXCEPT ![t] =
        CollaborationLog(<<"demo-collab", clock>>, query[t].id, steps'[t],
                         generate_enhanced_personalized_response(
                             query[t], customer[t], steps[t]),
                         ElapsedMs(start_time[t], clock))]
  /\ pc' = [pc EXCEPT ![t] = "returned"]
  /\ UNCHANGED <<clock, entry, query, customer, start_time, calls, events, sent,
                 response>>
  /\ UNCHANGED directory

\* customer_support.py 394-486: the eight steps, each after a sleep, then
\* the rendering and the log
demo_steps_done(t) ==
  /\ pc[t] = "demo_steps"
  /\ steps' = [steps EXCEPT ![t] = DemoSteps(customer[t], query[t])]
  /\ ret' = [ret EXCEPT ![t] =
        CollaborationLog(<<"demo-collab", clock>>, query[t].id, steps'[t],
                         generate_enhanced_personalized_response(
                             query[t], customer[t], steps'[t]),
                         ElapsedMs(start_time[t], clock))]
  /\ pc' = [pc EXCEPT ![t] = "returned"]
  /\ UNCHANGED <<clock, entry, query, customer, start_time, calls, events, sent,
                 response>>
  /\ UNCHANGED directory

(***************************************************************************)
(* POST /api/support/query-stream: submit_support_query_stream, the        *)
(* adapter generate_steps and the generator process_query_stream.          *)
(***************************************************************************)
\* api_server.py 113-144: validation, the SupportQuery, and the Response
\* around generate_steps(); no line of the generator has run yet
submit_support_query_stream(t, data) ==
  /\ pc[t] = "idle"
  /\ entry' = [entry EXCEPT ![t] = "submit_support_query_stream"]
  /\ IF MissingFields(data) # <<>>
     THEN /\ response' = [response EXCEPT ![t] =
                HttpError(400, <<"Missing required field", Head(MissingFields(data))>>)]
          /\ pc' = [pc EXCEPT ![t] = "responded"]
          /\ UNCHANGED query
     ELSE /\ query' = [query EXCEPT ![t] =
                SupportQuery(<<"q-", clock>>, data.customer_id, data.message,
                             data.priority, data.category)]
          /\ response' = [response EXCEPT ![t] =
                [status |-> 200, body |-> [stream |-> "text/plain"]]]
          /\ pc' = [pc EXCEPT ![t] = "gen_created"]
  /\ UNCHANGED <<clock, customer, start_time, steps, calls, events, sent, ret>>
  /\ UNCHANGED directory

\* seeded fault: generate_steps hands the records over two at a time
YieldInPairs(t, e) ==
  /\ events' = [events EXCEPT ![t] = Append(@, e)]
  /\ sent' = [sent EXCEPT ![t] =
        IF Len(events[t]) % 2 = 1
        THEN @ \o << SseRecord(events[t][Len(events[t])]), SseRecord(e) >>
        ELSE @]
  /\ pc' = [pc EXCEPT ![t] = "gen_suspended"]

\* the generator yields e and generate_steps hands its record to the consumer
Yield(t, e) ==
  /\ events' = [events EXCEPT ![t] = Append(@, e)]
  /\ sent' = [sent EXCEPT ![t] = Append(@, SseRecord(e))]
  /\ pc' = [pc EXCEPT ![t] = "gen_suspended"]

\* the first next(): customer_support.py 490-506
stream_first_next(t) ==
  /\ pc[t] = "gen_created"
  /\ start_time' = [start_time EXCEPT ![t] = clock]
  /\ LET c == get_customer_by_id(query[t].customer_id)
     IN  /\ customer' = [customer EXCEPT ![t] = c]
         /\ IF c = None THEN Yield(t, NotFoundEvent)
            ELSE Yield(t, StepEvent(1, c, query[t]))
  /\ UNCHANGED <<clock, entry, query, steps, calls, ret, response>>
  /\ UNCHANGED directory

\* seeded fault: the generator returns after its seventh step event, without
\* the complete event
stream_next_without_complete(t) ==
  /\ pc[t] = "gen_suspended"
  /\ LET n == Len(events[t])
     IN  IF customer[t] = None \/ n >= 7
         THEN /\ pc' = [pc EXCEPT ![t] = "gen_finished"]
              /\ UNCHANGED <<events, sent, calls>>
         ELSE IF n \in {2, 4, 6}
         THEN /\ calls' = [calls EXCEPT ![t] =
                             StartCall(@, StreamTask(n), StreamContext(n, @))]
              /\ pc' = [pc EXCEPT ![t] = "gen_in_call"]
              /\ UNCHANGED <<events, sent>>
         ELSE /\ Yield(t, StepEvent(n + 1, customer[t], query[t]))
              /\ UNCHANGED calls
  /\ UNCHANGED <<clock, entry, query, customer, start_time, steps, ret, response>>
  /\ UNCHANGED directory

\* a later next(): the generator resumes after its last yield and runs to
\* the next one, to the start of a completion call, or to its end
stream_next(t) ==
  /\ pc[t] = "gen_suspended"
  /\ LET n == Len(events[t])
     IN  IF customer[t] = None \/ n = 8
         THEN \* return: StopIteration ends generate_steps' loop
              /\ pc' = [pc EXCEPT ![t] = "gen_finished"]
              /\ UNCHANGED <<events, sent, calls>>
         ELSE IF n \in {2, 4, 6}
         THEN \* crew_analysis / crew_eu / crew_response .kickoff()
              /\ calls' = [calls EXCEPT ![t] =
                             StartCall(@, StreamTask(n), StreamContext(n, @))]
              /\ pc' = [pc EXCEPT ![t] = "gen_in_call"]
              /\ UNCHANGED <<events, sent>>
         ELSE IF n = 7
         THEN /\ Yield(t, CompleteEvent(query[t], KickoffResult(calls[t]),
                                        start_time[t], clock))
              /\ UNCHANGED calls
         ELSE /\ Yield(t, StepEvent(n + 1, customer[t], query[t]))
              /\ UNCHANGED calls
  /\ UNCHANGED <<clock, entry, query, customer, start_time, steps, ret, response>>
  /\ UNCHANGED directory

\* seeded fault: no event is yielded after the completion call
stream_call_return_without_event(t) ==
  /\ pc[t] = "gen_in_call"
  /\ calls' = [calls EXCEPT ![t] = ReturnCall(@)]
  /\ pc' = [pc EXCEPT ![t] = "gen_suspended"]
  /\ UNCHANGED <<clock, entry, query, customer, start_time, steps, events, sent,
                 ret, response>>
  /\ UNCHANGED directory

\* the completion call returns and the generator runs on to its next yield
stream_call_return(t) ==
  /\ pc[t] = "gen_in_call"
  /\ calls' = [calls EXCEPT ![t] = ReturnCall(@)]
  /\ Yield(t, StepEvent(Len(events[t]) + 1, customer[t], query[t]))
  /\ UNCHANGED <<clock, entry, query, customer, start_time, steps, ret, response>>
  /\ UNCHANGED directory

\* the completion call raises: the exception leaves the generator and
\* generate_steps while the response is being sent; the try/except of
\* submit_support_query_stream has already been left
stream_call_raise(t) ==
  /\ pc[t] = "gen_in_call"
  /\ calls' = [calls EXCEPT ![t] = RaiseCall(@)]
  /\ pc' = [pc EXCEPT ![t] = "gen_raised"]
  /\ UNCHANGED <<clock, entry, query, customer, start_time, steps, events, sent,
                 ret, response>>
  /\ UNCHANGED directory

\* seeded fault: closing reaches into a running completion call
stream_close_cancelling(t) ==
  /\ pc[t] \in {"gen_created", "gen_suspended", "gen_in_call"}
  /\ pc' = [pc EXCEPT ![t] = "gen_closed"]
  /\ UNCHANGED <<clock, entry, query, customer, start_time, steps, calls, events,
                 sent, ret, response>>
  /\ UNCHANGED directory

\* the consumer stops reading: the suspended generator is closed
stream_close(t) ==
  /\ pc[t] \in {"gen_created", "gen_suspended"}
  /\ pc' = [pc EXCEPT ![t] = "gen_closed"]
  /\ UNCHANGED <<clock, entry, query, customer, start_time, steps, calls, events,
                 sent, ret, response>>
  /\ UNCHANGED directory

(***************************************************************************)
(* GET /api/customers and GET /api/customers/<customer_id>.                *)
(***************************************************************************)
\* request.args of GET /api/customers: without a region, and with one
RegionArgs ==
  { [region |-> r] : r \in {"eu", "US", "apac"} } \cup
  { WithoutField([region |-> "eu"], "region") }

\* seeded fault: the table is replaced by the customers of the region asked for
get_customers_replacing_table(t, args) ==
  /\ pc[t] = "idle"
  /\ entry' = [entry EXCEPT ![t] = "get_customers"]
  /\ LET customers ==
           IF "region" \in DOMAIN args
           THEN get_customers_by_region(Upper(args.region)) ELSE directory
     IN  /\ response' = [response EXCEPT ![t] =
               [status |-> 200,
                body |-> [customers |-> customers, count |-> Len(customers)]]]
         /\ directory' = customers
  /\ pc' = [pc EXCEPT ![t] = "responded"]
  /\ UNCHANGED <<clock, query, customer, start_time, steps, calls, events, sent,
                 ret>>

\* api_server.py 39-52: the customers of the region asked for, or the whole
\* table, as a list of dicts made by asdict, with their count
get_customers(t, args) ==
  /\ pc[t] = "idle"
  /\ entry' = [entry EXCEPT ![t] = "get_customers"]
  /\ LET customers ==
           IF "region" \in DOMAIN args
           THEN get_customers_by_region(Upper(args.region)) ELSE directory
     IN  response' = [response EXCEPT ![t] =
           [status |-> 200,
            body |-> [customers |-> customers, count |-> Len(customers)]]]
  /\ pc' = [pc EXCEPT ![t] = "responded"]
  /\ UNCHANGED <<clock, query, customer, start_time, steps, calls, events, sent,
                 ret>>
  /\ UNCHANGED directory

\* api_server.py 55-63: the customer of that id, or status 404
get_customer(t, customer_id) ==
  /\ pc[t] = "idle"
  /\ entry' = [entry EXCEPT ![t] = "get_customer"]
  /\ LET c == get_customer_by_id(customer_id)
     IN  response' = [response EXCEPT ![t] =
           IF c = None THEN HttpError(404, <<"Customer not found">>)
           ELSE [status |-> 200, body |-> [customer |-> c]]]
  /\ pc' = [pc EXCEPT ![t] = "responded"]
  /\ UNCHANGED <<clock, query, customer, start_time, steps, calls, events, sent,
                 ret>>
  /\ UNCHANGED directory

Next ==
  \/ Tick
  \/ \E t \in Threads :
       \/ \E data \in Payloads : submit_support_query(t, data)
       \/ process_query(t)
       \/ kickoff_task_start(t)
       \/ kickoff_task_return(t)
       \/ kickoff_task_raise(t)
       \/ submit_support_query_respond(t)
       \/ \E q \in DirectQueries : process_query_with_demo_steps(t, q)
       \/ demo_steps_done(t)
       \/ \E data \in Payloads : submit_support_query_stream(t, data)
       \/ stream_first_next(t)
       \/ stream_next(t)
       \/ stream_call_return(t)
       \/ stream_call_raise(t)
       \/ stream_close(t)
       \/ \E args \in RegionArgs : get_customers(t, args)
       \/ \E customer_id \in RequestCustomerIds : get_customer(t, customer_id)

Spec == Init /\ [][Next]_vars

(***************************************************************************)
(* The template engine called alone.  The arguments of                     *)
(* generate_enhanced_personalized_response are drawn at the start: the     *)
(* function takes any Customer, not only those of the directory.           *)
(***************************************************************************)
\* the customers handed to the renderer: those of the directory, and every
\* combination of region, language, consent and purchases of a made-up one;
\* "APAC" is a region other than US and EU, "Spanish" a language without a
\* bundle
RenderCustomers ==
  { CUSTOMERS[i] : i \in DOMAIN CUSTOMERS } \cup
  { Customer("cust-new", "Ana Ruiz", region, "Silver", language, consent, "chat",
             purchases) :
      region \in {"US", "EU", "APAC"}, language \in {"English", "Spanish"},
      consent \in BOOLEAN,
      purchases \in {<<>>, <<"Security Suite", "Analytics Module">>} }

\* the queries handed to the renderer: one of every category
RenderQueries ==
  { SupportQuery("q1", "cust-new", "message", "high", cat) :
      cat \in {"billing", "technical", "general", "complaint"} }

\* the step lists handed to the renderer: none, one without and one with a
\* step of the EU agent
RenderSteps ==
  { <<>>,
    << AgentResponse("US", <<"Query received">>, None) >>,
    << AgentResponse("EU", <<"EU Agent online">>, None),
       AgentResponse("US", <<"Generating personalized response">>, None) >> }

InitRender ==
  /\ directory = CUSTOMERS
  /\ clock = 0
  /\ pc = [t \in Threads |-> "render"]
  /\ entry = [t \in Threads |-> "generate_enhanced_personalized_response"]
  /\ query \in [Threads -> RenderQueries]
  /\ customer \in [Threads -> RenderCustomers]
  /\ start_time = [t \in Threads |-> 0]
  /\ steps \in [Threads -> RenderSteps]
  /\ calls = [t \in Threads |-> <<>>]
  /\ events = [t \in Threads |-> <<>>]
  /\ sent = [t \in Threads |-> <<>>]
  /\ ret = [t \in Threads |-> None]
  /\ response = [t \in Threads |-> None]

\* seeded fault: the text tells whether the renderer was called before
render_remembering_calls(t) ==
  /\ pc[t] = "render"
  /\ ret' = [ret EXCEPT ![t] =
        generate_enhanced_personalized_response(query[t], customer[t], steps[t])
          \o << << "English",
                   IF \E u \in Threads : pc[u] = "returned"
                   THEN "later_call" ELSE "first_call" >> >>]
  /\ pc' = [pc EXCEPT ![t] = "returned"]
  /\ UNCHANGED <<directory, clock, entry, query, customer, start_time, steps,
                 calls, events, sent, response>>

\* the call of generate_enhanced_personalized_response on the drawn arguments
render(t) ==
  /\ pc[t] = "render"
  /\ ret' = [ret EXCEPT ![t] =
        generate_enhanced_personalized_response(query[t], customer[t], steps[t])]
  /\ pc' = [pc EXCEPT ![t] = "returned"]
  /\ UNCHANGED <<clock, entry, query, customer, start_time, steps, calls, events,
                 sent, response>>
  /\ UNCHANGED directory

NextRender == \E t \in Threads : render(t)

SpecRender == InitRender /\ [][NextRender]_vars

(***************************************************************************)
(* The live support endpoints over a table in which the EU customer        *)
(* cust-eu-001 has, or has not, given the GDPR consent: the seed table has *)
(* no EU customer without consent.                                         *)
(***************************************************************************)
\* the seed table, and the seed table with the consent of cust-eu-001 withdrawn
ConsentDirectories ==
  { [CUSTOMERS EXCEPT ![2] = Customer(@.id, @.name, @.region, @.tier, @.language,
                                      consent, @.preferred_channel, @.purchases)] :
      consent \in BOOLEAN }

InitConsent ==
  /\ directory \in ConsentDirectories
  /\ clock = 0
  /\ pc = [t \in Threads |-> "idle"]
  /\ entry = [t \in Threads |-> "none"]
  /\ query = [t \in Threads |-> None]
  /\ customer = [t \in Threads |-> None]
  /\ start_time = [t \in Threads |-> 0]
  /\ steps = [t \in Threads |-> <<>>]
  /\ calls = [t \in Threads |-> <<>>]
  /\ events = [t \in Threads |-> <<>>]
  /\ sent = [t \in Threads |-> <<>>]
  /\ ret = [t \in Threads |-> None]
  /\ response = [t \in Threads |-> None]

\* the steps of the two support endpoints
NextConsent ==
  \E t \in Threads :
    \/ \E data \in Payloads : submit_support_query(t, data)
    \/ process_query(t)
    \/ kickoff_task_start(t)
    \/ kickoff_task_return(t)
    \/ kickoff_task_raise(t)
    \/ submit_support_query_respond(t)
    \/ \E data \in Payloads : submit_support_query_stream(t, data)
    \/ stream_first_next(t)
    \/ stream_next(t)
    \/ stream_call_return(t)
    \/ stream_call_raise(t)
    \/ stream_close(t)

SpecConsent == InitConsent /\ [][NextConsent]_vars

(***************************************************************************)
(* The directory functions called alone.  The arguments of                 *)
(* get_customer_by_id and of get_customers_by_region are drawn at the      *)
(* start.                                                                  *)
(***************************************************************************)
\* the ids looked up: those of the table, an unknown one and the empty string
LookupIds == { CUSTOMERS[i].id : i \in DOMAIN CUSTOMERS } \cup {"cust-xx-404", ""}

\* the regions looked up: the two of the table, one without customers, and
\* one of the table in lower case
LookupRegions == {"US", "EU", "APAC", "eu"}

\* a call: the function and its argument
LookupCalls ==
  { [fn |-> "get_customer_by_id", customer_id |-> id] : id \in LookupIds } \cup
  { [fn |-> "get_customers_by_region", region |-> r] : r \in LookupRegions }

InitDirectory ==
  /\ directory = CUSTOMERS
  /\ clock = 0
  /\ pc = [t \in Threads |-> "call"]
  /\ query \in [Threads -> LookupCalls]
  /\ entry = [t \in Threads |-> query[t].fn]
  /\ customer = [t \in Threads |-> None]
  /\ start_time = [t \in Threads |-> 0]
  /\ steps = [t \in Threads |-> <<>>]
  /\ calls = [t \in Threads |-> <<>>]
  /\ events = [t \in Threads |-> <<>>]
  /\ sent = [t \in Threads |-> <<>>]
  /\ ret = [t \in Threads |-> None]
  /\ response = [t \in Threads |-> None]

\* CustomerService.get_customer_by_id(customer_id)
call_get_customer_by_id(t) ==
  /\ pc[t] = "call"
  /\ entry[t] = "get_customer_by_id"
  /\ ret' = [ret EXCEPT ![t] = get_customer_by_id(query[t].customer_id)]
  /\ pc' = [pc EXCEPT ![t] = "returned"]
  /\ UNCHANGED <<directory, clock, entry, query, customer, start_time, steps,
                 calls, events, sent, response>>

\* CustomerService.get_customers_by_region(region)
call_get_customers_by_region(t) ==
  /\ pc[t] = "call"
  /\ entry[t] = "get_customers_by_region"
  /\ ret' = [ret EXCEPT ![t] = get_customers_by_region(query[t].region)]
  /\ pc' = [pc EXCEPT ![t] = "returned"]
  /\ UNCHANGED <<directory, clock, entry, query, customer, start_time, steps,
                 calls, events, sent, response>>

NextDirectory ==
  \E t \in Threads :
    \/ call_get_customer_by_id(t)
    \/ call_get_customers_by_region(t)

SpecDirectory == InitDirectory /\ [][NextDirectory]_vars

(***************************************************************************)
(* The streaming endpoint with a consumer that keeps reading and           *)
(* completion calls that return: generate_steps' for loop asks for the     *)
(* next event as long as the generator has one, and Crew.kickoff returns.  *)
(***************************************************************************)
NextStream ==
  \E t \in Threads :
    \/ \E data \in Payloads : submit_support_query_stream(t, data)
    \/ stream_first_next(t)
    \/ stream_next(t)
    \/ stream_call_return(t)

\* the consumer's reads and the returns of the calls are not postponed for ever
FairStream ==
  \A t \in Threads :
    /\ WF_vars(stream_first_next(t))
    /\ WF_vars(stream_next(t))
    /\ WF_vars(stream_call_return(t))

SpecStream == Init /\ [][NextStream]_vars /\ FairStream

(***************************************************************************)
(* get_gdpr_compliant_data called alone, over tables in which the second   *)
(* customer is of each region, with and without the GDPR consent: the seed *)
(* table has no EU customer without consent and no customer of a third     *)
(* region.                                                                 *)
(***************************************************************************)
GdprRegions == {"US", "EU", "APAC"}

GdprDirectories ==
  { [CUSTOMERS EXCEPT ![2] = Customer(@.id, @.name, region, @.tier, @.language,
                                      consent, @.preferred_channel, @.purchases)] :
      region \in GdprRegions, consent \in BOOLEAN }

GdprCalls == { [fn |-> "get_gdpr_compliant_data", customer_id |-> id] : id \in LookupIds }

InitGdpr ==
  /\ directory \in GdprDirectories
  /\ clock = 0
  /\ pc = [t \in Threads |-> "call"]
  /\ query \in [Threads -> GdprCalls]
  /\ entry = [t \in Threads |-> query[t].fn]
  /\ customer = [t \in Threads |-> None]
  /\ start_time = [t \in Threads |-> 0]
  /\ steps = [t \in Threads |-> <<>>]
  /\ calls = [t \in Threads |-> <<>>]
  /\ events = [t \in Threads |-> <<>>]
  /\ sent = [t \in Threads |-> <<>>]
  /\ ret = [t \in Threads |-> None]
  /\ response = [t \in Threads |-> None]

\* CustomerService.get_gdpr_compliant_data(customer_id)
call_get_gdpr_compliant_data(t) ==
  /\ pc[t] = "call"
  /\ entry[t] = "get_gdpr_compliant_data"
  /\ ret' = [ret EXCEPT ![t] = get_gdpr_compliant_data(query[t].customer_id)]
  /\ pc' = [pc EXCEPT ![t] = "returned"]
  /\ UNCHANGED <<directory, clock, entry, query, customer, start_time, steps,
                 calls, events, sent, response>>

NextGdpr == \E t \in Threads : call_get_gdpr_compliant_data(t)

SpecGdpr == InitGdpr /\ [][NextGdpr]_vars

(***************************************************************************)
(* Vocabulary of the properties.                                           *)
(***************************************************************************)
\* the value under the "type" key of an event, as a consumer reads it
\* (event.get("type")): None when the dict has no such key
EventType(e) == IF "type" \in DOMAIN e THEN e.type ELSE "None"

IsBlocking(t) == entry[t] = "submit_support_query"
IsStream(t)   == entry[t] = "submit_support_query_stream"
IsDemo(t)     == entry[t] = "process_query_with_demo_steps"

\* the lookup has been made and found the customer
Resolved(t) == customer[t] # None

\* the query names no customer of the directory
UnknownCustomer(t) ==
  query[t] # None /\ get_customer_by_id(query[t].customer_id) = None

AgentsOf(ss) == [i \in DOMAIN ss |-> ss[i].agent]

HasAgent(agents, a) == \E i \in DOMAIN agents : agents[i] = a

\* the step events the generator has yielded, and their attribution
StepEvents(t) == SelectSeq(events[t], LAMBDA e : EventType(e) = "step")
StreamAgents(t) == [i \in DOMAIN StepEvents(t) |-> StepEvents(t)[i].step.agent]

\* the event of the i-th record sent to the consumer
SentEvent(t, i) == sent[t][i][2]

HasCompleteEvent(t) ==
  \E i \in DOMAIN events[t] : EventType(events[t][i]) = "complete"

\* the orchestrator function has returned a log (process_query, demo mode)
LogReturned(t) == (IsBlocking(t) \/ IsDemo(t)) /\ ret[t] # None

\* the run went through the whole pipeline and produced its result
RunCompleted(t) ==
  /\ Resolved(t)
  /\ \/ LogReturned(t)
     \/ IsStream(t) /\ HasCompleteEvent(t)

\* the stream is over: the generator returned, or an exception left it
StreamEnded(t) == IsStream(t) /\ pc[t] \in {"gen_finished", "gen_raised"}

\* the step sequence the run has produced for its caller
ProducedAgents(t) ==
  IF IsStream(t) THEN StreamAgents(t)
  ELSE IF ret[t] # None THEN AgentsOf(ret[t].steps) ELSE <<>>

\* the not-found error outcome: the error log, or the stream's error event
NotFoundOutcome(t) ==
  \/ ret[t] # None /\ ret[t].id[1] = "error"
  \/ \E i \in DOMAIN events[t] : "error" \in DOMAIN events[t][i]

\* the run has entered the ANALYZE stage (or a later one)
StageEntered(t) ==
  steps[t] # <<>> \/ calls[t] # <<>> \/ StepEvents(t) # <<>>

SomeCallRaised(t) == \E i \in DOMAIN calls[t] : calls[t][i].state = "raised"

AllCallsReturned(t) == \A i \in DOMAIN calls[t] : calls[t][i].state = "returned"

\* the order of the stages and of their agents
StageOrder == <<"ANALYZE", "CROSS_REGION_COLLAB", "RESPOND">>
AgentOrder == <<"US", "EU", "US">>

(***************************************************************************)
(* C1.  Whether or not the customer resolves, the CollaborationLog that    *)
(* process_query returns has query_id equal to the id of the submitted     *)
(* query.                                                                  *)
(***************************************************************************)
C1_QueryIdOfLog ==
  \A t \in Threads :
    (IsBlocking(t) /\ ret[t] # None) => ret[t].query_id = query[t].id

\* C1, reached: two process_query runs have returned, one for an unknown and
\* one for a known customer, on queries with different ids
C1_Witness ==
  \E t, u \in Threads :
    /\ IsBlocking(t) /\ ret[t] # None /\ ~Resolved(t)
    /\ IsBlocking(u) /\ ret[u] # None /\ Resolved(u)
    /\ query[t].id # query[u].id

C3_NotFoundLog ==
  \A t \in Threads :
    (IsBlocking(t) /\ UnknownCustomer(t) /\ pc[t] # "process_query")
      => /\ pc[t] \in {"returned", "responded"}
         /\ ret[t] # None
         /\ Len(ret[t].steps) = 1
         /\ ret[t].processing_time = 0
         /\ ret[t].final_response[1] =
              "I apologize, but I encountered an error processing your request"
         /\ calls[t] = <<>>

\* C3, reached: process_query has returned for an unknown customer after the
\* clock moved
C3_Witness ==
  \E t \in Threads :
    /\ IsBlocking(t) /\ UnknownCustomer(t) /\ pc[t] = "returned"
    /\ clock > query[t].id[2]

\* a terminal event: one of type complete or error; the not-found event,
\* which has an "error" key and no "type" key, is counted as an error event
IsTerminalEvent(e) ==
  EventType(e) \in {"complete", "error"} \/ "error" \in DOMAIN e

(***************************************************************************)
(* C4.  As stated: every execution of process_query_stream (customer       *)
(* found, customer not found, or a completion call failing) ends with      *)
(* exactly one terminal event, tagged complete or error, and no event      *)
(* follows the terminal one.                                               *)
(***************************************************************************)
C4_OneTerminalEvent ==
  \A t \in Threads :
    IsStream(t) =>
      /\ \A i \in DOMAIN events[t] :
           IsTerminalEvent(events[t][i]) => i = Len(events[t])
      /\ StreamEnded(t) =>
           (events[t] # <<>> /\ IsTerminalEvent(events[t][Len(events[t])]))

(***************************************************************************)
(* C5.  As stated: when the customer lookup fails in streaming mode the    *)
(* stream delivers exactly one message, the first one, tagged type         *)
(* "error", and no step or complete message.                               *)
(***************************************************************************)
C5_NotFoundIsTaggedError ==
  \A t \in Threads :
    (IsStream(t) /\ UnknownCustomer(t) /\ pc[t] = "gen_finished")
      => (Len(sent[t]) = 1 /\ EventType(SentEvent(t, 1)) = "error")

\* the two runs are on the same customer, message, category and priority
SameQuery(a, b) ==
  /\ query[a].customer_id = query[b].customer_id
  /\ query[a].message = query[b].message
  /\ query[a].category = query[b].category
  /\ query[a].priority = query[b].priority

\* a completed process_query run and a completed stream of the same query
BlockingAndStream(a, b) ==
  /\ IsBlocking(a) /\ RunCompleted(a)
  /\ IsStream(b) /\ RunCompleted(b)
  /\ SameQuery(a, b)

(***************************************************************************)
(* C6.  As stated: for every query whose customer resolves and whose       *)
(* completion calls all succeed, the step events of process_query_stream   *)
(* are the same step sequence (same number, same agents in the same order) *)
(* as the steps of the log process_query returns for that query.           *)
(***************************************************************************)
C6_Original ==
  \A a, b \in Threads :
    BlockingAndStream(a, b) => StreamAgents(b) = AgentsOf(ret[a].steps)

\* C6 as amended: the stream yields seven step events, attributed US, US,
\* US, EU, EU, US, US, and the log of process_query holds five steps,
\* attributed US, US, EU, US, US; both sequences end with the same step
C6_StreamSevenLogFive ==
  \A a, b \in Threads :
    BlockingAndStream(a, b) =>
      /\ StreamAgents(b) = <<"US", "US", "US", "EU", "EU", "US", "US">>
      /\ AgentsOf(ret[a].steps) = <<"US", "US", "EU", "US", "US">>
      /\ StepEvents(b)[7].step = ret[a].steps[5]

\* C6, reached: process_query and the stream have both completed for the same
\* query of an EU customer
C6_Witness ==
  \E a, b \in Threads : BlockingAndStream(a, b) /\ customer[a].region = "EU"

(***************************************************************************)
(* C7.  Every process_query or process_query_stream run on a resolved      *)
(* customer whose completion calls succeed makes exactly three completion  *)
(* calls, in the order ANALYZE (US), CROSS_REGION_COLLAB (EU), RESPOND     *)
(* (US), whatever the customer's region; no stage is skipped and a call    *)
(* starts only after the call before it has returned.                      *)
(***************************************************************************)
C7_ThreeCallsInOrder ==
  \A t \in Threads :
    (IsBlocking(t) \/ IsStream(t)) =>
      /\ Len(calls[t]) <= Len(StageOrder)
      /\ \A i \in DOMAIN calls[t] :
           /\ calls[t][i].stage = StageOrder[i]
           /\ calls[t][i].agent = AgentOrder[i]
           /\ i < Len(calls[t]) => calls[t][i].state = "returned"
      /\ RunCompleted(t) => (Len(calls[t]) = 3 /\ AllCallsReturned(t))

\* C7, reached: a process_query run for a US customer and a stream for an EU
\* customer have both completed, each with the regional agent's call made
C7_Witness ==
  \E t, u \in Threads :
    /\ IsBlocking(t) /\ RunCompleted(t) /\ customer[t].region = "US"
    /\ IsStream(u) /\ RunCompleted(u) /\ customer[u].region = "EU"
    /\ calls[t][2].agent = "EU" /\ calls[u][2].agent = "EU"

(***************************************************************************)
(* C8.  The not-found error outcome is reached from INIT only: a run that  *)
(* ends in it has entered no stage and made no completion call, and once   *)
(* the ANALYZE stage has started the run cannot end in it.                 *)
(***************************************************************************)
C8_NotFoundOnlyFromInit ==
  /\ [](\A t \in Threads :
          NotFoundOutcome(t)
            => (~StageEntered(t) /\ calls[t] = <<>> /\ ~Resolved(t)))
  /\ [][\A t \in Threads : StageEntered(t) => ~NotFoundOutcome(t)']_vars

\* C8, reached: one run has ended in the not-found outcome in each of blocking
\* and streaming mode
C8_Witness ==
  \E t, u \in Threads :
    /\ IsBlocking(t) /\ NotFoundOutcome(t)
    /\ IsStream(u) /\ NotFoundOutcome(u) /\ pc[u] = "gen_finished"

\* an event that tells the consumer of a failure
IsFailureEvent(e) == EventType(e) = "error" \/ "error" \in DOMAIN e

\* the caller has been told that the request failed
FailureDelivered(t) ==
  \/ IsBlocking(t) /\ response[t] # None /\ response[t].status = 500
  \/ IsStream(t) /\ sent[t] # <<>> /\ IsFailureEvent(SentEvent(t, Len(sent[t])))

(***************************************************************************)
(* C9.  As stated: if a completion call fails during process_query or      *)
(* process_query_stream, the call is not retried, no later stage's call is *)
(* made, and the query ends in a terminal error delivered to the caller.   *)
(***************************************************************************)
C9_FailureIsTerminalError ==
  \A t \in Threads :
    SomeCallRaised(t) =>
      /\ calls[t][Len(calls[t])].state = "raised"
      /\ \A i, j \in DOMAIN calls[t] : calls[t][i].stage = calls[t][j].stage => i = j
      /\ pc[t] \in {"responded", "gen_raised"} => FailureDelivered(t)

\* the caller holds the whole collaboration
FullResultDelivered(t) ==
  \/ IsBlocking(t) /\ response[t] # None /\ response[t].status = 200
  \/ IsStream(t) /\ sent[t] # <<>>
       /\ EventType(SentEvent(t, Len(sent[t]))) = "complete"

(***************************************************************************)
(* C10.  As stated: no partial success is observable: in blocking and in   *)
(* streaming mode the caller either obtains a full result or receives an   *)
(* explicit failure signal, and never some step events of a run without a  *)
(* terminal complete or error signal for it.                               *)
(***************************************************************************)
C10_NoPartialSuccess ==
  \A t \in Threads :
    ((IsBlocking(t) /\ pc[t] = "responded") \/ StreamEnded(t))
      => (FullResultDelivered(t) \/ FailureDelivered(t)
          \/ (response[t] # None /\ response[t].status = 400))

\* the completion calls in flight, each named by its thread and its position
CallsInFlight ==
  UNION { { <<t, i>> : i \in { j \in DOMAIN calls[t] : calls[t][j].state = "inflight" } } :
          t \in Threads }

(***************************************************************************)
(* C11.  As stated: at no point are two completion calls in flight at the  *)
(* same time, also when the server, which handles every request on a       *)
(* thread of its own with one shared service object, has two support       *)
(* requests that overlap in time.                                          *)
(***************************************************************************)
C11_NoTwoCallsInFlight == Cardinality(CallsInFlight) <= 1

(***************************************************************************)
(* Vocabulary of the properties of the template engine.                    *)
(***************************************************************************)
\* the renderer, called alone, has returned its text in ret[t]
Rendered(t) ==
  entry[t] = "generate_enhanced_personalized_response" /\ pc[t] = "returned"

\* the two calls were given the same query and the same steps
SameQueryAndSteps(t, u) == query[t] = query[u] /\ steps[t] = steps[u]

\* the pieces of a text that come from the given keys of a bundle
PiecesOf(text, keys) == SelectSeq(text, LAMBDA piece : piece[2] \in keys)

HasPiece(text, key) == PiecesOf(text, {key}) # <<>>

\* the language of the bundle every piece of the text was taken from
WrittenIn(text, language) == \A i \in DOMAIN text : text[i][1] = language

FootnoteKeys == {"gdpr_notice", "security_notice"}
CategoryKeys == {"technical_analysis", "billing_inquiry", "general_inquiry"}

\* the paragraph of a category
CategoryKey(category) ==
  CASE category = "technical" -> "technical_analysis"
    [] category = "billing"   -> "billing_inquiry"
    [] category = "general"   -> "general_inquiry"

(***************************************************************************)
(* C12.  For a customer whose language is none of German, Italian, French  *)
(* and English, generate_enhanced_personalized_response returns a text     *)
(* that is not empty, is taken from the English bundle, and equals the     *)
(* text returned for the same customer with language English on the same   *)
(* query and steps.                                                        *)
(***************************************************************************)
C12_UnknownLanguageIsEnglish ==
  \A t, u \in Threads :
    (Rendered(t)
       /\ customer[t].language \notin {"German", "Italian", "French", "English"})
      => /\ ret[t] # <<>>
         /\ WrittenIn(ret[t], "English")
         /\ (Rendered(u) /\ SameQueryAndSteps(t, u)
               /\ customer[u] = [customer[t] EXCEPT !.language = "English"])
              => ret[t] = ret[u]

\* C12, reached: a Spanish-speaking EU customer and the same customer with
\* language English have both been rendered for a technical query
C12_Witness ==
  \E t, u \in Threads :
    /\ Rendered(t) /\ Rendered(u) /\ SameQueryAndSteps(t, u)
    /\ customer[t].language = "Spanish" /\ customer[t].region = "EU"
    /\ customer[u] = [customer[t] EXCEPT !.language = "English"]
    /\ query[t].category = "technical"

(***************************************************************************)
(* C13.  The rendered text has one compliance footnote, the GDPR notice    *)
(* for a customer of region EU and the security notice for every other     *)
(* region, and two customers that differ in gdpr_consent only get the same *)
(* text for the same query and steps.                                      *)
(***************************************************************************)
C13_FootnoteByRegionOnly ==
  \A t, u \in Threads :
    Rendered(t) =>
      /\ Len(PiecesOf(ret[t], FootnoteKeys)) = 1
      /\ HasPiece(ret[t], "gdpr_notice") <=> (customer[t].region = "EU")
      /\ HasPiece(ret[t], "security_notice") <=> (customer[t].region # "EU")
      /\ (Rendered(u) /\ SameQueryAndSteps(t, u)
            /\ customer[u] = [customer[t] EXCEPT !.gdpr_consent = ~@])
           => ret[t] = ret[u]

\* C13, reached: an EU customer without consent and the same customer with
\* consent have both been rendered, on the same query and steps
C13_Witness ==
  \E t, u \in Threads :
    /\ Rendered(t) /\ Rendered(u) /\ SameQueryAndSteps(t, u)
    /\ customer[t].region = "EU" /\ ~customer[t].gdpr_consent
    /\ customer[u] = [customer[t] EXCEPT !.gdpr_consent = TRUE]

(***************************************************************************)
(* C14.  The rendered text contains the "including specialists" clause of  *)
(* the bundle if and only if at least one of the steps passed to the       *)
(* renderer is attributed to the regional agent (EU).                      *)
(***************************************************************************)
C14_SpecialistsIffRegionalStep ==
  \A t \in Threads :
    Rendered(t) =>
      (HasPiece(ret[t], "including_specialists")
         <=> HasAgent(AgentsOf(steps[t]), "EU"))

\* C14, reached: one text was rendered from steps whose first, and not last,
\* step is the EU agent's, another from steps of the US agent only
C14_Witness ==
  \E t, u \in Threads :
    /\ Rendered(t) /\ Len(steps[t]) = 2 /\ steps[t][1].agent = "EU"
    /\ steps[t][2].agent = "US"
    /\ Rendered(u) /\ steps[u] # <<>> /\ ~HasAgent(AgentsOf(steps[u]), "EU")

(***************************************************************************)
(* C15.  For a technical, billing or general query the rendered text has   *)
(* exactly one category paragraph, that of the query's category; for a     *)
(* complaint it has none.  Greeting, thanks phrase, footnote, collaboration*)
(* statement and signature are present for every category, complaint       *)
(* included.                                                               *)
(***************************************************************************)
C15_CategoryParagraph ==
  \A t \in Threads :
    Rendered(t) =>
      LET paragraphs == PiecesOf(ret[t], CategoryKeys)
      IN  /\ query[t].category \in {"technical", "billing", "general"}
               => /\ Len(paragraphs) = 1
                  /\ paragraphs[1][2] = CategoryKey(query[t].category)
          /\ query[t].category = "complaint" => paragraphs = <<>>
          /\ \A key \in {"greeting", "thank_you", "processed_through",
                         "collaboration_footer", "best_regards", "footer"} :
               HasPiece(ret[t], key)
          /\ PiecesOf(ret[t], FootnoteKeys) # <<>>

\* C15, reached: a complaint and a billing query have both been rendered
C15_Witness ==
  \E t, u \in Threads :
    /\ Rendered(t) /\ query[t].category = "complaint"
    /\ Rendered(u) /\ query[u].category = "billing"

(***************************************************************************)
(* C16.  The product named in the rendered technical or billing paragraph  *)
(* is the product of the last purchase of the customer's purchase          *)
(* sequence, and "current setup" when the sequence is empty; the renderer  *)
(* returns its text for a customer without purchases too.                  *)
(***************************************************************************)
C16_ProductOfLastPurchase ==
  \A t \in Threads :
    (Rendered(t) /\ query[t].category \in {"technical", "billing"}) =>
      LET paragraphs == PiecesOf(ret[t], CategoryKeys)
          purchases == customer[t].purchases
      IN  /\ paragraphs # <<>>
          /\ paragraphs[1][3] =
               IF purchases = <<>> THEN "current setup"
               ELSE purchases[Len(purchases)]

\* C16, reached: a customer with two different purchases was rendered for a
\* technical query and a customer without purchases for a billing query
C16_Witness ==
  \E t, u \in Threads :
    /\ Rendered(t) /\ query[t].category = "technical"
    /\ Len(customer[t].purchases) = 2
    /\ customer[t].purchases[1] # customer[t].purchases[2]
    /\ Rendered(u) /\ query[u].category = "billing"
    /\ customer[u].purchases = <<>>

(***************************************************************************)
(* C17.  process_query_with_demo_steps makes no completion call, whatever  *)
(* the query, and for a customer of the directory the final_response of    *)
(* its log is the text generate_enhanced_personalized_response renders     *)
(* from the query, the customer and the eight steps the run built.         *)
(***************************************************************************)
C17_DemoIsCompletionFree ==
  \A t \in Threads :
    IsDemo(t) =>
      /\ calls[t] = <<>>
      /\ (Resolved(t) /\ ret[t] # None) =>
           /\ ret[t].steps = steps[t]
           /\ Len(steps[t]) = 8
           /\ ret[t].final_response =
                generate_enhanced_personalized_response(query[t], customer[t],
                                                        steps[t])
           /\ HasPiece(ret[t].final_response, "including_specialists")

\* C17, reached: demo mode has returned its log for an EU customer in one
\* caller and the error log for an unknown customer in the other
C17_Witness ==
  \E t, u \in Threads :
    /\ IsDemo(t) /\ Resolved(t) /\ ret[t] # None /\ customer[t].region = "EU"
    /\ IsDemo(u) /\ UnknownCustomer(u) /\ ret[u] # None

\* the final_response the live run handed out: that of the log of
\* process_query, that of the complete event of process_query_stream
LiveFinalResponse(t) ==
  IF IsStream(t) THEN events[t][Len(events[t])].collaboration.final_response
  ELSE ret[t].final_response

\* a live run (process_query, process_query_stream) has produced its result
LiveRunCompleted(t) == (IsBlocking(t) \/ IsStream(t)) /\ RunCompleted(t)

(***************************************************************************)
(* C18.  In the live path the final_response of the result (of the log     *)
(* process_query returns, of the complete event of process_query_stream)   *)
(* is the text the RESPOND stage's completion call returned, and not the   *)
(* output of the ANALYZE or of the CROSS_REGION_COLLAB call.               *)
(***************************************************************************)
C18_FinalResponseIsRespondOutput ==
  \A t \in Threads :
    LiveRunCompleted(t) =>
      /\ \E i \in DOMAIN calls[t] :
           /\ calls[t][i].stage = "RESPOND"
           /\ calls[t][i].state = "returned"
           /\ LiveFinalResponse(t) = calls[t][i].output
      /\ \A i \in DOMAIN calls[t] :
           calls[t][i].stage \in {"ANALYZE", "CROSS_REGION_COLLAB"}
             => LiveFinalResponse(t) # calls[t][i].output

\* C18, reached: process_query has returned its log in one thread and the
\* stream of the other has yielded its complete event, after three calls each
C18_Witness ==
  \E t, u \in Threads :
    /\ IsBlocking(t) /\ LiveRunCompleted(t) /\ Len(calls[t]) = 3
    /\ IsStream(u) /\ LiveRunCompleted(u) /\ Len(calls[u]) = 3
    /\ EventType(events[u][Len(events[u])]) = "complete"

\* the i-th event the generator yielded is a step event
IsStepEvent(t, i) == i \in DOMAIN events[t] /\ EventType(events[t][i]) = "step"

\* where the events stand with respect to the calls made so far: a step
\* event was yielded right before every call, another after every call that
\* returned, and none while a call is in flight or after it raised
EventsAroundCalls(t) ==
  \A i \in DOMAIN calls[t] :
    /\ IsStepEvent(t, 2 * i)
    /\ calls[t][i].state = "returned" => IsStepEvent(t, 2 * i + 1)
    /\ calls[t][i].state # "returned" => Len(events[t]) = 2 * i

\* the step from calls[t] to calls'[t] starts a completion call
CallStarts(t) == Len(calls'[t]) > Len(calls[t])

(***************************************************************************)
(* C19.  In process_query_stream a step event is yielded before each of    *)
(* the three completion calls starts (the events 2, 4 and 6), and another  *)
(* after the call has returned and before the call of the next stage       *)
(* starts (the events 3, 5 and 7): a call starts only when the event after *)
(* the call before it and the event announcing it have both been yielded,  *)
(* and no event is yielded while a call is in flight.                      *)
(***************************************************************************)
C19_StepEventsAroundCalls ==
  /\ [](\A t \in Threads : IsStream(t) => EventsAroundCalls(t))
  /\ [][\A t \in Threads :
          (IsStream(t) /\ CallStarts(t)) =>
            /\ Len(events[t]) = 2 * Len(calls'[t])
            /\ IsStepEvent(t, Len(events[t]))
            /\ events'[t] = events[t]
            /\ AllCallsReturned(t)]_vars

\* C19, reached: one stream has yielded its seven step events around three
\* returned calls, the other was ended by its second call raising after four
\* step events
C19_Witness ==
  \E t, u \in Threads :
    /\ IsStream(t) /\ Len(calls[t]) = 3 /\ AllCallsReturned(t)
    /\ Len(StepEvents(t)) = 7
    /\ IsStream(u) /\ Len(calls[u]) = 2 /\ SomeCallRaised(u)
    /\ Len(StepEvents(u)) = 4

\* the fields of a CollaborationLog
LogFields == {"id", "query_id", "steps", "final_response", "processing_time"}

(***************************************************************************)
(* C20.  As stated: the complete event that ends a successful              *)
(* process_query_stream run carries the fields of a CollaborationLog of    *)
(* that run: an id, query_id equal to the id of the submitted query, the   *)
(* steps of the run, the final_response and the processing_time.           *)
(***************************************************************************)
C20_CompleteEventCarriesLog ==
  \A t \in Threads :
    \A i \in DOMAIN events[t] :
      (IsStream(t) /\ EventType(events[t][i]) = "complete") =>
        LET collaboration == events[t][i].collaboration
        IN  /\ LogFields \subseteq DOMAIN collaboration
            /\ collaboration.query_id = query[t].id
            /\ collaboration.steps =
                 [j \in DOMAIN StepEvents(t) |-> StepEvents(t)[j].step]

\* the request came in by one of the two support endpoints
IsSupportRequest(t) == IsBlocking(t) \/ IsStream(t)

\* the caller was answered with a validation failure
ValidationFailure(t) == response[t] # None /\ response[t].status = 400

\* nothing of the orchestrator has run for the request: no lookup, no
\* completion call, no step, no event, no result
OrchestratorNotInvoked(t) ==
  /\ customer[t] = None
  /\ calls[t] = <<>>
  /\ steps[t] = <<>>
  /\ events[t] = <<>>
  /\ sent[t] = <<>>
  /\ ret[t] = None

\* one of the four mandatory fields is absent from the payload
FieldAbsent(data) ==
  \E f \in {"customer_id", "message", "category", "priority"} : f \notin DOMAIN data

(***************************************************************************)
(* C21.  A request to the blocking or to the streaming endpoint that lacks *)
(* one of customer_id, message, category, priority is answered with a      *)
(* validation failure (status 400), and the orchestrator is never invoked  *)
(* for it: no customer lookup, no completion call, no step.                *)
(***************************************************************************)
C21_ValidationBeforeOrchestrator ==
  /\ [][\A t \in Threads : \A data \in Payloads :
          (FieldAbsent(data)
             /\ (submit_support_query(t, data) \/ submit_support_query_stream(t, data)))
            => (ValidationFailure(t)' /\ OrchestratorNotInvoked(t)')]_vars
  /\ [](\A t \in Threads :
          (IsSupportRequest(t) /\ ValidationFailure(t))
            => (pc[t] = "responded" /\ query[t] = None /\ OrchestratorNotInvoked(t)))

\* C21, reached: a blocking and a streaming request have both been answered
\* with a validation failure, for different missing fields
C21_Witness ==
  \E t, u \in Threads :
    /\ IsBlocking(t) /\ ValidationFailure(t)
    /\ IsStream(u) /\ ValidationFailure(u)
    /\ response[t].body.error # response[u].body.error

(***************************************************************************)
(* C22.  As stated: for a request with all four fields and an unknown      *)
(* customer_id the blocking path raises no exception, and the caller       *)
(* receives the error-flavored CollaborationLog, not a generic failure.    *)
(***************************************************************************)
C22_NotFoundLogReachesCaller ==
  \A t \in Threads :
    (IsBlocking(t) /\ UnknownCustomer(t) /\ pc[t] = "responded")
      => /\ response[t].status = 200
         /\ response[t].body.collaboration = ret[t]

(***************************************************************************)
(* C23.  The customer directory is never mutated: whatever lookups,        *)
(* blocking, demo and streaming runs and API requests have taken place,    *)
(* the table holds the customers it held at process start, in the same     *)
(* order and with the same fields and purchases.                           *)
(***************************************************************************)
C23_DirectoryUnchanged == directory = CUSTOMERS

\* C23, reached: a region of the table was listed through the API while a
\* run on a customer of the directory has produced its result
C23_Witness ==
  \E t, u \in Threads :
    /\ entry[t] = "get_customers" /\ pc[t] = "responded"
    /\ response[t].body.count \notin {0, Len(CUSTOMERS)}
    /\ RunCompleted(u)

\* a directory function, called alone, has returned
LookupReturned(t, fn) == entry[t] = fn /\ pc[t] = "returned"

\* the position of a customer in the table of process start
TablePosition(c) == CHOOSE i \in DOMAIN CUSTOMERS : CUSTOMERS[i] = c

(***************************************************************************)
(* C24.  get_customer_by_id returns the customer of the table whose id is  *)
(* the argument, and None when the table has no such customer;             *)
(* get_customers_by_region returns the customers of the table whose region *)
(* is the argument, all of them, each once, in table order, and the empty  *)
(* list for a region without customers.                                    *)
(***************************************************************************)
C24_DirectoryLookups ==
  \A t \in Threads :
    /\ LookupReturned(t, "get_customer_by_id") =>
         LET known == { i \in DOMAIN CUSTOMERS :
                          CUSTOMERS[i].id = query[t].customer_id }
         IN  IF known = {} THEN ret[t] = None
             ELSE \E i \in known : ret[t] = CUSTOMERS[i]
    /\ LookupReturned(t, "get_customers_by_region") =>
         /\ { ret[t][i] : i \in DOMAIN ret[t] } =
              { CUSTOMERS[i] : i \in { j \in DOMAIN CUSTOMERS :
                                         CUSTOMERS[j].region = query[t].region } }
         /\ \A i, j \in DOMAIN ret[t] :
              i < j => TablePosition(ret[t][i]) < TablePosition(ret[t][j])

\* C24, reached: a lookup of an unknown id has returned, and so has a lookup
\* of the EU region, which has four customers
C24_Witness ==
  \E t, u \in Threads :
    /\ LookupReturned(t, "get_customer_by_id") /\ ret[t] = None
    /\ LookupReturned(u, "get_customers_by_region") /\ Len(ret[u]) = 4

(***************************************************************************)
(* C25.  generate_steps hands the consumer exactly one record per event    *)
(* process_query_stream yields, in the order of the events, and the        *)
(* generator is resumed for its next event only when the record of every   *)
(* event before has been handed over: no event waits inside the adapter    *)
(* when the next one is pulled.                                            *)
(***************************************************************************)
C25_OneRecordPerEvent ==
  /\ [](\A t \in Threads :
          /\ Len(sent[t]) = Len(events[t])
          /\ \A i \in DOMAIN events[t] : sent[t][i] = <<"data: ", events[t][i], "\n\n">>)
  /\ [][\A t \in Threads :
          events'[t] # events[t] =>
            /\ Len(sent[t]) = Len(events[t])
            /\ Len(events'[t]) = Len(events[t]) + 1
            /\ Len(sent'[t]) = Len(sent[t]) + 1]_vars

\* C25, reached: one stream has handed over its seven step records and its
\* complete record, the other its single record for an unknown customer
C25_Witness ==
  \E t, u \in Threads :
    /\ IsStream(t) /\ Len(sent[t]) = 8 /\ EventType(SentEvent(t, 8)) = "complete"
    /\ IsStream(u) /\ UnknownCustomer(u) /\ Len(sent[u]) = 1

\* a piece of a text holds the value among those formatted into it
Mentions(text, value) ==
  \E i \in DOMAIN text : \E j \in 3..Len(text[i]) : text[i][j] = value

(***************************************************************************)
(* C26.  For customer cust-us-001 (US, Gold, English, no consent) and a    *)
(* technical query of priority high, the final response demo mode renders  *)
(* holds the security notice, does not hold the GDPR notice, and names     *)
(* tier Gold.                                                              *)
(***************************************************************************)
C26_ScenarioUSGoldTechnical ==
  \A t \in Threads :
    (IsDemo(t) /\ ret[t] # None /\ query[t].customer_id = "cust-us-001"
       /\ query[t].category = "technical" /\ query[t].priority = "high")
      => /\ customer[t].region = "US" /\ customer[t].tier = "Gold"
         /\ customer[t].language = "English" /\ ~customer[t].gdpr_consent
         /\ HasPiece(ret[t].final_response, "security_notice")
         /\ ~HasPiece(ret[t].final_response, "gdpr_notice")
         /\ Mentions(PiecesOf(ret[t].final_response, {"technical_analysis"}), "Gold")

\* C26, reached: demo mode has returned its log for cust-us-001 and a
\* technical query of priority high
C26_Witness ==
  \E t \in Threads :
    /\ IsDemo(t) /\ ret[t] # None /\ query[t].customer_id = "cust-us-001"
    /\ query[t].category = "technical" /\ query[t].priority = "high"
    /\ Len(ret[t].steps) = 8

(***************************************************************************)
(* C27.  For customer cust-eu-001 (EU, Platinum, German, consent given)    *)
(* and a general query, every piece of the rendered text comes from the    *)
(* German bundle, the greeting is "Guten Tag", and the text holds the GDPR *)
(* notice and not the security notice.                                     *)
(***************************************************************************)
C27_ScenarioEUGermanGeneral ==
  \A t \in Threads :
    (Rendered(t) /\ customer[t].id = "cust-eu-001" /\ query[t].category = "general")
      => /\ customer[t].region = "EU" /\ customer[t].tier = "Platinum"
         /\ customer[t].language = "German" /\ customer[t].gdpr_consent
         /\ WrittenIn(ret[t], "German")
         /\ PiecesOf(ret[t], {"greeting"}) # <<>>
         /\ PiecesOf(ret[t], {"greeting"})[1][3] = "Guten Tag"
         /\ HasPiece(ret[t], "general_inquiry")
         /\ HasPiece(ret[t], "gdpr_notice")
         /\ ~HasPiece(ret[t], "security_notice")

\* C27, reached: the text for cust-eu-001 and a general query was rendered
C27_Witness ==
  \E t \in Threads :
    /\ Rendered(t) /\ customer[t].id = "cust-eu-001"
    /\ query[t].category = "general" /\ steps[t] # <<>>

ProcessQueryOver(t) ==
  IsBlocking(t) /\ query[t] # None /\ pc[t] \in {"returned", "raised", "responded"}

(***************************************************************************)
(* C29.  As stated: every run of process_query, whether it succeeds or     *)
(* fails on an unknown customer or on a failing completion call, has       *)
(* created exactly one CollaborationLog when it is over.                   *)
(***************************************************************************)
C29_OneLogPerRun ==
  \A t \in Threads : ProcessQueryOver(t) => ret[t] # None

\* a is an initial part of b
IsPrefix(a, b) == Len(a) <= Len(b) /\ \A i \in DOMAIN a : a[i] = b[i]

StagesOf(cs) == [i \in DOMAIN cs |-> cs[i].stage]

\* a live run on a customer of region EU
LiveEURun(t) ==
  (IsBlocking(t) \/ IsStream(t)) /\ Resolved(t) /\ customer[t].region = "EU"

(***************************************************************************)
(* C30.  A live run on an EU customer goes through the same stages, makes  *)
(* the same completion calls in the same order and attributes its steps to *)
(* the same agents whether or not the customer has given the GDPR consent: *)
(* in process_query and in process_query_stream the calls are ANALYZE (US),*)
(* CROSS_REGION_COLLAB (EU), RESPOND (US), the steps of the log are        *)
(* attributed US, US, EU, US, US and the step events US, US, US, EU, EU,   *)
(* US, US, for the consenting and for the non-consenting customer alike.   *)
(***************************************************************************)
C30_ConsentDoesNotChangeTheRun ==
  \A t \in Threads :
    LiveEURun(t) =>
      /\ IsPrefix(StagesOf(calls[t]), <<"ANALYZE", "CROSS_REGION_COLLAB", "RESPOND">>)
      /\ IsPrefix(AgentsOf(calls[t]), <<"US", "EU", "US">>)
      /\ IsBlocking(t) => IsPrefix(AgentsOf(steps[t]), <<"US", "US", "EU", "US", "US">>)
      /\ IsStream(t) =>
           IsPrefix(StreamAgents(t), <<"US", "US", "US", "EU", "EU", "US", "US">>)
      /\ RunCompleted(t) =>
           /\ Len(calls[t]) = 3
           /\ IsBlocking(t) => Len(ret[t].steps) = 5
           /\ IsStream(t) => Len(StreamAgents(t)) = 7

\* C30, reached: process_query and the stream have both completed for the EU
\* customer whose consent is withdrawn, with the regional agent's call made
C30_Witness ==
  \E t, u \in Threads :
    /\ IsBlocking(t) /\ LiveEURun(t) /\ RunCompleted(t) /\ ~customer[t].gdpr_consent
    /\ IsStream(u) /\ LiveEURun(u) /\ RunCompleted(u) /\ ~customer[u].gdpr_consent
    /\ calls[t][2].agent = "EU" /\ calls[u][2].agent = "EU"

\* the earlier outputs that the prompt of the i-th call of cs carries
Carried(cs, i) == {cs[i].context[k] : k \in DOMAIN cs[i].context}

(***************************************************************************)
(* C31.  As stated: in both live modes the prompt of every completion call *)
(* after the first carries the full output of every earlier call of the    *)
(* same run.                                                               *)
(***************************************************************************)
C31_PromptCarriesEarlierOutputs ==
  \A t \in Threads :
    IsSupportRequest(t) =>
      \A i \in DOMAIN calls[t] :
        \A j \in 1..(i - 1) : calls[t][j].output \in Carried(calls[t], i)

\* a step of the log narrates the work of the regional agent
NarratesRegionalStage(ss) == HasAgent(AgentsOf(ss), "EU")

(***************************************************************************)
(* C32.  As stated: in process_query a step record is appended after each  *)
(* completion call, so the step that narrates the regional agent's stage   *)
(* is in the log only once the ANALYZE call before it has returned.        *)
(***************************************************************************)
C32_StepsFollowCalls ==
  \A t \in Threads :
    (IsBlocking(t) /\ NarratesRegionalStage(steps[t])) =>
      /\ calls[t] # <<>>
      /\ calls[t][1].state = "returned"

\* the generator of t was created for a customer that the directory resolves
StreamCreatedForKnownCustomer(t) ==
  /\ IsStream(t) /\ pc[t] = "gen_created"
  /\ get_customer_by_id(query[t].customer_id) # None

\* the generator of t has returned and its last event is the complete event
StreamExhaustedAfterComplete(t) ==
  /\ pc[t] = "gen_finished"
  /\ events[t] # <<>>
  /\ EventType(events[t][Len(events[t])]) = "complete"

\* a returned generator stays returned: it yields nothing, sends nothing and
\* makes no call
ExhaustedStaysExhausted(t) ==
  pc[t] = "gen_finished" =>
    /\ pc'[t] = "gen_finished"
    /\ events'[t] = events[t] /\ sent'[t] = sent[t] /\ calls'[t] = calls[t]

(***************************************************************************)
(* C33.  When the customer resolves, every completion call returns and the *)
(* consumer keeps reading, process_query_stream eventually yields its      *)
(* complete event as its last event and returns; from then on the          *)
(* generator stays returned, yields no further event and makes no further  *)
(* call: the run is not replayed.                                          *)
(***************************************************************************)
C33_StreamTerminates ==
  /\ \A t \in Threads :
       StreamCreatedForKnownCustomer(t) ~> StreamExhaustedAfterComplete(t)
  /\ [][\A t \in Threads : ExhaustedStaysExhausted(t)]_vars

\* C33, reached: the generator of a resolved customer returned after its
\* complete event, all three calls having returned
C33_Witness ==
  \E t \in Threads :
    /\ IsStream(t) /\ Resolved(t) /\ StreamExhaustedAfterComplete(t)
    /\ Len(calls[t]) = 3 /\ AllCallsReturned(t)

\* the consumer of t has stopped reading and the generator was closed
StreamClosed(t) == IsStream(t) /\ pc[t] = "gen_closed"

\* the calls a generator has started when it is suspended at its k-th yield:
\* one for every two events before the last
CallsStartedAt(k) == IF k = 0 THEN 0 ELSE (k - 1) \div 2

\* a call of the stream starts in a step in which the consumer asks a
\* suspended generator for the event after the even-numbered, pre-call step
\* event, which is the last one it was given
StartsOnRequestOnly(t) ==
  (IsStream(t) /\ CallStarts(t)) =>
    /\ pc[t] = "gen_suspended"
    /\ Len(events[t]) \in {2, 4, 6}
    /\ IsStepEvent(t, Len(events[t]))
    /\ Len(calls'[t]) = Len(calls[t]) + 1
    /\ Len(calls'[t]) = Len(events[t]) \div 2
    /\ events'[t] = events[t]

\* a call in flight is not cancelled: the generator is not closed in a step
\* taken while it runs, and the call stays in the list of the calls
NeverCancelled(t) ==
  (IsStream(t) /\ pc[t] = "gen_in_call") =>
    /\ pc'[t] # "gen_closed"
    /\ Len(calls'[t]) = Len(calls[t])

\* after the close the generator stays closed and makes no call
ClosedMakesNoCall(t) ==
  StreamClosed(t) => /\ pc'[t] = "gen_closed"
                     /\ calls'[t] = calls[t]
                     /\ events'[t] = events[t]

(***************************************************************************)
(* C34.  process_query_stream is lazy.  A completion call starts only in a *)
(* step in which the consumer asks for the event after the call's pre-call *)
(* step event (the second, fourth or sixth event).  A consumer that stops  *)
(* reading after k events leaves exactly the calls started before the k-th *)
(* event, none of them in flight and none started afterwards; after at     *)
(* most two events no call was made at all.  A call in flight is never     *)
(* cancelled: the generator cannot be closed while it runs.                *)
(***************************************************************************)
C34_StreamIsLazy ==
  /\ [](\A t \in Threads :
          StreamClosed(t) =>
            /\ Len(calls[t]) = CallsStartedAt(Len(events[t]))
            /\ AllCallsReturned(t)
            /\ Len(events[t]) <= 2 => calls[t] = <<>>)
  /\ [][\A t \in Threads :
          /\ StartsOnRequestOnly(t)
          /\ NeverCancelled(t)
          /\ ClosedMakesNoCall(t)]_vars

\* C34, reached: one consumer stopped after two events, with no call made,
\* and another after four events, with the ANALYZE call made and returned
C34_Witness ==
  \E t, u \in Threads :
    /\ StreamClosed(t) /\ Resolved(t) /\ Len(events[t]) = 2 /\ calls[t] = <<>>
    /\ StreamClosed(u) /\ Resolved(u) /\ Len(events[u]) = 4 /\ Len(calls[u]) = 1

\* the steps a run has produced so far: the log's steps, or the dicts under
\* "step" of the step events
ProducedSteps(t) ==
  IF IsStream(t) THEN [i \in DOMAIN StepEvents(t) |-> StepEvents(t)[i].step]
  ELSE steps[t]

\* the primary agent's step that announces the cross-region collaboration:
\* "Requesting EU agent collaboration for ..." in process_query and in demo
\* mode, "US LLM analysis completed. Initiating EU agent collaboration for
\* ..." in the stream
RequestsCollaboration(s) ==
  /\ s.agent = "US"
  /\ s.message[1] \in {"Requesting EU agent collaboration", "US LLM analysis completed"}

FirstStepIsPrimary(ss) == ss # <<>> => ss[1].agent = "US"

LastStepIsPrimary(ss) == ss # <<>> => ss[Len(ss)].agent = "US"

RegionalAfterRequest(ss) ==
  \A i \in DOMAIN ss :
    ss[i].agent = "EU" => \E j \in 1..(i - 1) : RequestsCollaboration(ss[j])

DemoLogReturned(t) == IsDemo(t) /\ Resolved(t) /\ ret[t] # None

(***************************************************************************)
(* C36.  In demo mode, for every customer of the directory, of region EU   *)
(* or not, the steps of the returned log, which are those given to the     *)
(* renderer, include steps attributed to the regional agent (the fourth    *)
(* and the fifth), and the final response therefore has the "including     *)
(* specialists" clause.                                                    *)
(***************************************************************************)
C36_DemoAlwaysNamesSpecialists ==
  \A t \in Threads :
    DemoLogReturned(t) =>
      /\ ret[t].steps[4].agent = "EU" /\ ret[t].steps[5].agent = "EU"
      /\ AnyEUStep(ret[t].steps)
      /\ Len(PiecesOf(ret[t].final_response, {"including_specialists"})) = 1

\* C36, reached: demo mode has returned its log for a US customer and for an
\* EU customer
C36_Witness ==
  \E t, u \in Threads :
    /\ DemoLogReturned(t) /\ customer[t].region = "US"
    /\ DemoLogReturned(u) /\ customer[u].region = "EU"

\* the API accepted the request of t: the body was complete and the
\* SupportQuery was built
Accepted(t) == IsSupportRequest(t) /\ query[t] # None

\* the id of the collaboration result of a run that produced one: that of the
\* log of process_query, that of the complete event of the stream
ResultId(t) ==
  IF IsStream(t) THEN events[t][Len(events[t])].collaboration.id ELSE ret[t].id

(***************************************************************************)
(* C37.  As stated: any two support requests the API accepted have         *)
(* distinct SupportQuery ids, and the collaboration results produced for   *)
(* them have distinct ids, also when both are handled within one second of *)
(* the clock by two server threads.                                        *)
(***************************************************************************)
C37_DistinctIds ==
  \A t, u \in Threads :
    (t # u /\ Accepted(t) /\ Accepted(u)) =>
      /\ query[t].id # query[u].id
      /\ (LiveRunCompleted(t) /\ LiveRunCompleted(u)) => ResultId(t) # ResultId(u)

\* the customers of the table whose data may be handed out: the US customers,
\* and the EU customers who gave the GDPR consent
Releasable ==
  { i \in DOMAIN directory :
      \/ directory[i].region = "US"
      \/ directory[i].region = "EU" /\ directory[i].gdpr_consent }

(***************************************************************************)
(* C38.  get_gdpr_compliant_data returns the customer of the table with    *)
(* the given id when that customer is a US customer or an EU customer with *)
(* gdpr_consent true, and None in every other case: an id the table does   *)
(* not hold, an EU customer without the consent, a customer of a third     *)
(* region whatever the consent.                                            *)
(***************************************************************************)
C38_GdprCompliantData ==
  \A t \in Threads :
    LookupReturned(t, "get_gdpr_compliant_data") =>
      LET hits == { i \in Releasable : directory[i].id = query[t].customer_id }
      IN  IF hits = {} THEN ret[t] = None
          ELSE \E i \in hits : ret[t] = directory[i]

\* C38, reached: the function returned None for an EU customer without the
\* consent, and the customer for a US customer without the consent
C38_Witness ==
  \E t, u \in Threads :
    /\ LookupReturned(t, "get_gdpr_compliant_data") /\ ret[t] = None
    /\ query[t].customer_id = "cust-eu-001"
    /\ directory[2].region = "EU" /\ ~directory[2].gdpr_consent
    /\ LookupReturned(u, "get_gdpr_compliant_data") /\ ret[u] # None
    /\ ret[u].region = "US" /\ ~ret[u].gdpr_consent

====
